---- MODULE Spec2Model ----
(***************************************************************************)
(* Faculty allocation: merit sort, cohort grouping and the per-cohort      *)
(* greedy assignment of src/allocation_engine.py, with the input           *)
(* validation of src/data_utils.py.                                        *)
(*                                                                         *)
(* A student object is identified by its index in `students` (the list     *)
(* handed to the engine); sorted_students and groups hold these indices,   *)
(* as the Python lists hold references to the same objects.                *)
(* A roll (a Python str) is the sequence of its decimal digits, compared   *)
(* lexicographically.  float('inf') is INF, above every rank of the model. *)
(***************************************************************************)
EXTENDS Integers, Sequences, FiniteSets, TLC

VARIABLES
    students,           \* engine.students: records roll, cgpa, preferences, allocated_faculty
    faculty_list,       \* engine.faculty_list
    scanOrder,          \* iteration order of set(faculty_list) in this process
    pc,                 \* position of the program
    num_students, num_faculty, num_groups,   \* fields set by __init__
    sorted_students,    \* local of allocate()
    groups,             \* local of allocate()
    allocations,        \* local of allocate(): roll -> faculty or "UNALLOCATED"
    group_idx,          \* enumerate(groups), 1-based; 0 before the loop
    student_idx,        \* position in the current group, 0 before its first student
    available_faculty,  \* pool of the current group
    turns,              \* history: one record per call of get_best_available_faculty
    run,                \* 1 for the first run, 2 after a reload
    prev,               \* history: inputs and outcome of the previous run
    data_check,         \* record returned by validate_data, or NoCheck
    entry,              \* entry point: "load_and_allocate" or "app"
    session,            \* st.session_state of the app, and the message it shows
    uploads,            \* number of files uploaded to the app so far
    outputs             \* history: what each get_* method returned when called

appvars == <<entry, session, uploads, outputs>>

vars == <<students, faculty_list, scanOrder, pc, num_students, num_faculty,
          num_groups, sorted_students, groups, allocations, group_idx,
          student_idx, available_faculty, turns, run, prev, data_check,
          entry, session, uploads, outputs>>

(***************************************************************************)
(* Bounds of the model.                                                    *)
(***************************************************************************)
MaxStudents == 3
MaxCells == 6
MaxRank == 2
MaxUploads == 2

(***************************************************************************)
(* Values.                                                                 *)
(***************************************************************************)
None == "None"
UNALLOCATED == "UNALLOCATED"
INF == MaxRank + Len(<<"X", "Y", "Z", "W">>) + 1
NoCheck == [valid |-> FALSE, issues |-> <<"not validated">>, warnings |-> <<>>,
            num_students |-> 0, num_faculty |-> 0]
EmptyDict == [k \in {} |-> None]
NoPrev == [students |-> <<>>, scanOrder |-> <<>>, allocations |-> EmptyDict,
           sorted_students |-> <<>>, groups |-> <<>>, changed |-> 0]

FacultyNames == <<"X", "Y", "Z", "W">>
RankValues == 0 .. MaxRank
RollNumbers == <<8, 9, 10, 11, 12>>

\* A field that is None or holds a table or an object is <<>> when it is
\* None and <<value>> otherwise.
Unset == <<>>
Holding(value) == <<value>>
\* st.session_state.setdefault(...): nothing has run; no message on the page
NoSession == [has_run |-> FALSE, allocator |-> Unset, results_df |-> Unset,
              stats_df |-> Unset, message |-> None]
\* no get_* method has been called yet
NoOutputs == [get_allocation_summary |-> Unset, get_faculty_statistics |-> Unset,
              get_allocation_preference_statistics |-> Unset,
              get_allocation_metrics |-> Unset]
Range(s) == {s[i] : i \in DOMAIN s}
PositionIn(seq, x) == CHOOSE k \in DOMAIN seq : seq[k] = x
Min(a, b) == IF a < b THEN a ELSE b

(***************************************************************************)
(* str(row['Roll']): the decimal digits of a non-negative integer.         *)
(***************************************************************************)
RECURSIVE Str(_)
Str(n) == IF n < 10 THEN <<n>> ELSE Str(n \div 10) \o <<n % 10>>

(***************************************************************************)
(* Python's < on str: lexicographic, a proper prefix is smaller.           *)
(***************************************************************************)
RECURSIVE StrLess(_, _)
StrLess(a, b) ==
    IF Len(b) = 0 THEN FALSE
    ELSE IF Len(a) = 0 THEN TRUE
    ELSE IF Head(a) # Head(b) THEN Head(a) < Head(b)
    ELSE StrLess(Tail(a), Tail(b))

(***************************************************************************)
(* Student.__init__                                                        *)
(***************************************************************************)
Student(roll, cgpa, preferences) ==
    [roll |-> roll, cgpa |-> cgpa, preferences |-> preferences,
     allocated_faculty |-> None]

(***************************************************************************)
(* self.preferences.get(faculty, float('inf'))                             *)
(***************************************************************************)
PrefRank(preferences, faculty) ==
    IF faculty \in DOMAIN preferences THEN preferences[faculty] ELSE INF

(***************************************************************************)
(* for faculty in available_faculty: the members of the pool in the        *)
(* iteration order of the set.                                             *)
(***************************************************************************)
ScanOf(available) ==
    LET In(f) == f \in available IN SelectSeq(scanOrder, In)

(***************************************************************************)
(* Student.get_best_available_faculty: the loop over the pool, from the    *)
(* i-th scanned faculty on, with the best found so far.                    *)
(***************************************************************************)
BetterRankLE(rank, best_rank) == rank <= best_rank
BetterRank(rank, best_rank) == rank < best_rank

RECURSIVE BestFrom(_, _, _, _, _)
BestFrom(preferences, scan, i, best_faculty, best_rank) ==
    IF i > Len(scan) THEN <<best_faculty, best_rank>>
    ELSE LET rank == PrefRank(preferences, scan[i]) IN
         IF BetterRank(rank, best_rank)
         THEN BestFrom(preferences, scan, i + 1, scan[i], rank)
         ELSE BestFrom(preferences, scan, i + 1, best_faculty, best_rank)

get_best_of_all_faculty(student, available) ==
    BestFrom(student.preferences, scanOrder, 1, None, INF)
get_best_available_faculty(student, available) ==
    BestFrom(student.preferences, ScanOf(available), 1, None, INF)

(***************************************************************************)
(* sort_students_by_merit: sorted() is stable; key (-cgpa, roll).          *)
(***************************************************************************)
KeyLessAsc(s, t) ==
    \/ s.cgpa < t.cgpa
    \/ s.cgpa = t.cgpa /\ StrLess(s.roll, t.roll)
KeyLessNoTie(s, t) == (0 - s.cgpa) < (0 - t.cgpa)
KeyLess(s, t) ==
    \/ (0 - s.cgpa) < (0 - t.cgpa)
    \/ (0 - s.cgpa) = (0 - t.cgpa) /\ StrLess(s.roll, t.roll)

\* insert index x into the sorted index sequence srt, after every element
\* whose key is not greater (stability)
RECURSIVE InsertSorted(_, _, _)
InsertSorted(sts, srt, x) ==
    IF Len(srt) = 0 THEN <<x>>
    ELSE IF KeyLess(sts[x], sts[Head(srt)]) THEN <<x>> \o srt
    ELSE <<Head(srt)>> \o InsertSorted(sts, Tail(srt), x)

RECURSIVE SortFrom(_, _, _)
SortFrom(sts, srt, i) ==
    IF i > Len(sts) THEN srt
    ELSE SortFrom(sts, InsertSorted(sts, srt, i), i + 1)

sort_students_by_merit(sts) == SortFrom(sts, <<>>, 1)

(***************************************************************************)
(* sorted_students[i:j] with 0-based i, j (Python slice, clamped).         *)
(***************************************************************************)
Slice(s, i, j) == SubSeq(s, i + 1, Min(j, Len(s)))

(***************************************************************************)
(* create_groups: for i in range(0, num_students, num_faculty).            *)
(***************************************************************************)
GroupStepOff(nf) == nf + 1
GroupStep(nf) == nf

RECURSIVE GroupsFrom(_, _, _, _)
GroupsFrom(srt, i, ns, nf) ==
    IF i >= ns THEN <<>>
    ELSE <<Slice(srt, i, i + nf)>> \o GroupsFrom(srt, i + GroupStep(nf), ns, nf)

create_groups(srt, ns, nf) == GroupsFrom(srt, 0, ns, nf)

(***************************************************************************)
(* math.ceil(num_students / num_faculty), num_faculty > 0.                 *)
(***************************************************************************)
Ceil(n, d) == IF n % d = 0 THEN n \div d ELSE (n \div d) + 1

(***************************************************************************)
(* allocations[student.roll] = value                                       *)
(***************************************************************************)
Put(dict, key, value) ==
    [k \in DOMAIN dict \cup {key} |-> IF k = key THEN value ELSE dict[k]]

(***************************************************************************)
(* available_faculty.remove(best_faculty)                                  *)
(***************************************************************************)
PoolKeep(available, faculty) == available
PoolRemove(available, faculty) == available \ {faculty}

(***************************************************************************)
(* Inputs: what load_student_data or a direct caller of the engine hands   *)
(* over.  Faculty names are distinct non-empty column names; a preference  *)
(* map has an integer rank for some (usually all) of the faculty.          *)
(***************************************************************************)
FacultyLists == {SubSeq(FacultyNames, 1, f) : f \in 0 .. Len(FacultyNames)}
\* the preference table of the input has at most MaxCells cells
Fits(n, fl) == n <= MaxStudents /\ n * Len(fl) <= MaxCells

ScanOrders(fl) ==
    {s \in [1 .. Len(fl) -> Range(fl)] : \A i, j \in 1 .. Len(fl) : s[i] = s[j] => i = j}

PrefMaps(fl, ranks) == UNION {[D -> ranks] : D \in SUBSET Range(fl)}

\* rolls: all different, or the last student repeating the first one's
UniqueRolls(n) == [i \in 1 .. n |-> Str(RollNumbers[i])]
RollChoices(n) ==
    {UniqueRolls(n)} \cup
    (IF n >= 2 THEN {[UniqueRolls(n) EXCEPT ![n] = Str(RollNumbers[1])]} ELSE {})
AnyRolls(n) == [1 .. n -> {Str(RollNumbers[i]) : i \in 1 .. MaxStudents}]

\* scores: everybody at the usual score, or all but one student, among `who`,
\* with another score
CgpaLists(n, usual, others, who) ==
    {[i \in 1 .. n |-> usual]} \cup
    {[i \in 1 .. n |-> IF i = k THEN o ELSE usual] : k \in who \cap 1 .. n, o \in others}

StudentLists(rolls, cgpas, prefs, n) ==
    {[i \in 1 .. n |-> Student(r[i], c[i], p[i])] :
        r \in rolls, c \in cgpas, p \in [1 .. n -> prefs]}

(***************************************************************************)
(* The state once the data is loaded: students with allocated_faculty      *)
(* unset, no engine yet.                                                   *)
(***************************************************************************)
Loaded(sts, fl, so) ==
    /\ students = sts
    /\ faculty_list = fl
    /\ scanOrder = so
    /\ pc = "loaded"
    /\ num_students = 0
    /\ num_faculty = 0
    /\ num_groups = 0
    /\ sorted_students = <<>>
    /\ groups = <<>>
    /\ allocations = EmptyDict
    /\ group_idx = 0
    /\ student_idx = 0
    /\ available_faculty = {}
    /\ turns = <<>>
    /\ run = 1
    /\ prev = NoPrev
    /\ data_check = NoCheck
    /\ entry = "load_and_allocate"
    /\ session = NoSession
    /\ uploads = 0
    /\ outputs = NoOutputs

Init ==
    \E fl \in FacultyLists : \E n \in {m \in 0 .. MaxStudents : Fits(m, fl)} :
        \E sts \in StudentLists({UniqueRolls(n)}, CgpaLists(n, 8, {9}, {n}),
                                PrefMaps(fl, RankValues), n) :
            \E so \in ScanOrders(fl) : Loaded(sts, fl, so)

(***************************************************************************)
(* AllocationEngine.__init__: the division raises when faculty_list is     *)
(* empty.                                                                  *)
(***************************************************************************)
\* the division guarded as the app guards it for display (app.py line 232)
CohortCountGuarded(n, d) ==
    [raised |-> None, value |-> IF d = 0 THEN 0 ELSE Ceil(n, d)]
\* math.ceil(num_students / num_faculty): the value, or the exception raised
CohortCount(n, d) ==
    IF d = 0 THEN [raised |-> "ZeroDivisionError", value |-> 0]
    ELSE [raised |-> None, value |-> Ceil(n, d)]

Construct ==
    /\ pc = "loaded"
    /\ num_students' = Len(students)
    /\ num_faculty' = Len(faculty_list)
    /\ LET cohorts == CohortCount(Len(students), Len(faculty_list))
       IN IF cohorts.raised # None
          THEN /\ pc' = cohorts.raised
               /\ num_groups' = num_groups
          ELSE /\ pc' = "constructed"
               /\ num_groups' = cohorts.value
    /\ UNCHANGED <<students, faculty_list, scanOrder, sorted_students, groups,
                   allocations, group_idx, student_idx, available_faculty,
                   turns, run, prev, data_check>>
    /\ UNCHANGED appvars

(***************************************************************************)
(* allocate(), up to the loop over the groups.                             *)
(***************************************************************************)
AllocateBegin ==
    /\ pc = "constructed"
    /\ sorted_students' = sort_students_by_merit(students)
    /\ groups' = create_groups(sorted_students', num_students, num_faculty)
    /\ allocations' = EmptyDict
    /\ group_idx' = 0
    /\ pc' = "for_group"
    /\ UNCHANGED <<students, faculty_list, scanOrder, num_students, num_faculty,
                   num_groups, student_idx, available_faculty, turns, run, prev,
                   data_check>>
    /\ UNCHANGED appvars

(***************************************************************************)
(* for group_idx, group in enumerate(groups):                              *)
(*     available_faculty = set(self.faculty_list)                          *)
(***************************************************************************)
NextGroup ==
    /\ pc = "for_group"
    /\ group_idx < Len(groups)
    /\ group_idx' = group_idx + 1
    /\ available_faculty' = Range(faculty_list)
    /\ student_idx' = 0
    /\ pc' = IF Len(groups[group_idx + 1]) = 0 THEN "for_group" ELSE "for_student"
    /\ UNCHANGED <<students, faculty_list, scanOrder, num_students, num_faculty,
                   num_groups, sorted_students, groups, allocations, turns, run,
                   prev, data_check>>
    /\ UNCHANGED appvars

(***************************************************************************)
(* The body of "for student in group": one student's turn.                 *)
(***************************************************************************)
AllocateStudent ==
    /\ pc = "for_student"
    /\ student_idx < Len(groups[group_idx])
    /\ LET s == groups[group_idx][student_idx + 1]
           student == students[s]
           best == get_best_available_faculty(student, available_faculty)
           best_faculty == best[1]
           best_rank == best[2]
       IN /\ turns' = Append(turns, [student |-> s, group |-> group_idx,
                                      pool |-> available_faculty,
                                      scan |-> ScanOf(available_faculty),
                                      before |-> student.allocated_faculty,
                                      best_faculty |-> best_faculty,
                                      best_rank |-> best_rank])
          /\ IF best_faculty # None
             THEN /\ students' = [students EXCEPT ![s].allocated_faculty = best_faculty]
                  /\ allocations' = Put(allocations, student.roll, best_faculty)
                  /\ IF best_faculty \in available_faculty
                     THEN /\ available_faculty' = PoolRemove(available_faculty, best_faculty)
                          /\ pc' = IF student_idx + 1 = Len(groups[group_idx])
                                    THEN "for_group" ELSE "for_student"
                     ELSE /\ available_faculty' = available_faculty
                          /\ pc' = "KeyError"
             ELSE /\ students' = students
                  /\ allocations' = Put(allocations, student.roll, UNALLOCATED)
                  /\ available_faculty' = available_faculty
                  /\ pc' = IF student_idx + 1 = Len(groups[group_idx])
                            THEN "for_group" ELSE "for_student"
    /\ student_idx' = student_idx + 1
    /\ UNCHANGED <<faculty_list, scanOrder, num_students, num_faculty, num_groups,
                   sorted_students, groups, group_idx, run, prev, data_check>>
    /\ UNCHANGED appvars

(***************************************************************************)
(* return allocations                                                      *)
(***************************************************************************)
ReturnAllocations ==
    /\ pc = "for_group"
    /\ group_idx = Len(groups)
    /\ pc' = "done"
    /\ UNCHANGED <<students, faculty_list, scanOrder, num_students, num_faculty,
                   num_groups, sorted_students, groups, allocations, group_idx,
                   student_idx, available_faculty, turns, run, prev, data_check>>
    /\ UNCHANGED appvars

Next ==
    \/ Construct
    \/ AllocateBegin
    \/ NextGroup
    \/ AllocateStudent
    \/ ReturnAllocations

Spec == Init /\ [][Next]_vars

(***************************************************************************)
(* A second run of the program on freshly loaded data: the same file, or   *)
(* the file with the preference row of one student (changed) edited.       *)
(* load_student_data builds new Student objects, allocated_faculty unset.  *)
(* The run is a new process: str hashes are salted per process, so the     *)
(* iteration order of set(faculty_list) is chosen anew.  prev keeps the    *)
(* first run for comparison.                                               *)
(***************************************************************************)
Rerun ==
    /\ pc = "done"
    /\ run = 1
    /\ \E changed \in 0 .. Len(students) :
        \E preferences \in PrefMaps(faculty_list, 1 .. MaxRank) :
            /\ changed = 0 => Len(students) > 0 /\ preferences = students[1].preferences
            /\ changed # 0 => preferences # students[changed].preferences
            /\ students' = [i \in DOMAIN students |->
                    Student(students[i].roll, students[i].cgpa,
                            IF i = changed THEN preferences
                            ELSE students[i].preferences)]
            /\ prev' = [students |-> students, scanOrder |-> scanOrder,
                        allocations |-> allocations,
                        sorted_students |-> sorted_students, groups |-> groups,
                        changed |-> changed]
    /\ scanOrder' \in ScanOrders(faculty_list)
    /\ run' = 2
    /\ pc' = "loaded"
    /\ num_students' = 0
    /\ num_faculty' = 0
    /\ num_groups' = 0
    /\ sorted_students' = <<>>
    /\ groups' = <<>>
    /\ allocations' = EmptyDict
    /\ group_idx' = 0
    /\ student_idx' = 0
    /\ available_faculty' = {}
    /\ turns' = <<>>
    /\ UNCHANGED <<faculty_list, data_check>>
    /\ UNCHANGED appvars

\* the first run reads a file with a rank in every cell; two faculties at most
TwoRunFaculty == {<<"X">>, <<"X", "Y">>}
InitTwoRuns ==
    \E fl \in TwoRunFaculty : \E n \in {m \in 1 .. MaxStudents : Fits(m, fl)} :
        \E sts \in StudentLists({UniqueRolls(n)}, CgpaLists(n, 8, {9}, {n}),
                                [Range(fl) -> 1 .. MaxRank], n) :
            \E so \in ScanOrders(fl) : Loaded(sts, fl, so)

NextTwoRuns == Next \/ Rerun

SpecTwoRuns == InitTwoRuns /\ [][NextTwoRuns]_vars

(***************************************************************************)
(* The concrete scenario: faculty X, Y, Z; five students whose scores      *)
(* decrease from S1 to S5, listed in the file in merit order or in the     *)
(* reverse; S1 and S2 rank X=1, Y=2, Z=3, S3 ranks Y=1, X=2, Z=3; the maps *)
(* of S4 and S5 are free.                                                  *)
(***************************************************************************)
ScenarioFaculty == <<"X", "Y", "Z">>
ScenarioCgpa == <<10, 9, 8, 7, 6>>
ScenarioRoll(k) == Str(RollNumbers[k])
PrefsXYZ == [f \in {"X", "Y", "Z"} |-> IF f = "X" THEN 1 ELSE IF f = "Y" THEN 2 ELSE 3]
PrefsYXZ == [f \in {"X", "Y", "Z"} |-> IF f = "Y" THEN 1 ELSE IF f = "X" THEN 2 ELSE 3]
ScenarioOrders == {<<1, 2, 3, 4, 5>>, <<5, 4, 3, 2, 1>>}

InitScenario ==
    \E p4, p5 \in PrefMaps(ScenarioFaculty, RankValues) :
        \E order \in ScenarioOrders : \E so \in ScanOrders(ScenarioFaculty) :
            LET prefs == <<PrefsXYZ, PrefsXYZ, PrefsYXZ, p4, p5>>
            IN Loaded([i \in 1 .. 5 |->
                          Student(ScenarioRoll(order[i]), ScenarioCgpa[order[i]],
                                  prefs[order[i]])],
                      ScenarioFaculty, so)

SpecScenario == InitScenario /\ [][Next]_vars

(***************************************************************************)
(* Rosters: any rolls, repeated ones included, and any of three scores,    *)
(* each student ranking the faculty in the order of the list.              *)
(***************************************************************************)
RosterFaculty == {<<"X">>, <<"X", "Y">>}
ListOrderPrefs(fl) == [f \in Range(fl) |-> PositionIn(fl, f)]

InitRoster ==
    \E fl \in RosterFaculty : \E n \in 0 .. MaxStudents :
        \E sts \in StudentLists(AnyRolls(n), [1 .. n -> {7, 8, 9}],
                                {ListOrderPrefs(fl)}, n) :
            Loaded(sts, fl, fl)

SpecRoster == InitRoster /\ [][Next]_vars

(***************************************************************************)
(* validate_data                                                           *)
(***************************************************************************)
RECURSIVE FlatMap(_, _, _)
FlatMap(Op(_), seq, i) ==
    IF i > Len(seq) THEN <<>> ELSE Op(seq[i]) \o FlatMap(Op, seq, i + 1)

DuplicateRollsIgnored(sts) == FALSE
\* len(roll_numbers) != len(set(roll_numbers))
DuplicateRollsFound(sts) ==
    Len(sts) # Cardinality({sts[i].roll : i \in DOMAIN sts})

validate_data(sts, fl) ==
    LET n_students == Len(sts)
        n_faculty == Len(fl)
        issues ==
            (IF n_students = 0 THEN <<"No students found in input file">> ELSE <<>>)
            \o (IF n_faculty = 0 THEN <<"No faculty found in input file">> ELSE <<>>)
            \o (IF DuplicateRollsFound(sts) THEN <<"Duplicate roll numbers found">> ELSE <<>>)
        InvalidPreferences(student) ==
            LET Bad(f) == /\ f \in DOMAIN student.preferences
                          /\ \/ student.preferences[f] < 1
                             \/ student.preferences[f] > n_faculty
                bad == SelectSeq(fl, Bad)
            IN [k \in 1 .. Len(bad) |->
                    <<"invalid preference", student.roll, student.preferences[bad[k]], bad[k]>>]
        DuplicateRanks(student) ==
            IF Cardinality(DOMAIN student.preferences)
                 # Cardinality({student.preferences[f] : f \in DOMAIN student.preferences})
            THEN << <<"duplicate preference ranks", student.roll>> >> ELSE <<>>
        UnusualCgpa(student) ==
            IF student.cgpa < 0 \/ student.cgpa > 10
            THEN << <<"unusual CGPA", student.roll, student.cgpa>> >> ELSE <<>>
        warnings == FlatMap(InvalidPreferences, sts, 1)
                    \o FlatMap(DuplicateRanks, sts, 1)
                    \o FlatMap(UnusualCgpa, sts, 1)
    IN [valid |-> Len(issues) = 0, issues |-> issues, warnings |-> warnings,
        num_students |-> n_students, num_faculty |-> n_faculty]

(***************************************************************************)
(* The app after an upload: load_student_data, then validate_data.         *)
(***************************************************************************)
Validate ==
    /\ pc = "loaded"
    /\ data_check' = validate_data(students, faculty_list)
    /\ pc' = "validated"
    /\ UNCHANGED <<students, faculty_list, scanOrder, num_students, num_faculty,
                   num_groups, sorted_students, groups, allocations, group_idx,
                   student_idx, available_faculty, turns, run, prev>>
    /\ UNCHANGED appvars

InitValidate ==
    \E fl \in FacultyLists : \E n \in {m \in 0 .. MaxStudents : Fits(m, fl)} :
        \E sts \in StudentLists(RollChoices(n), CgpaLists(n, 8, {0 - 1, 11}, 1 .. n),
                                PrefMaps(fl, RankValues), n) :
            Loaded(sts, fl, fl)

SpecValidate == InitValidate /\ [][Validate]_vars

(***************************************************************************)
(* Vocabulary of the properties.                                           *)
(***************************************************************************)
Rolls == {students[i].roll : i \in DOMAIN students}
RollsUnique == \A i, j \in DOMAIN students : students[i].roll = students[j].roll => i = j
GroupsFormed == pc \in {"for_group", "for_student", "done"}
Assigned(i) == students[i].allocated_faculty
RECURSIVE Concat(_)
Concat(ss) == IF Len(ss) = 0 THEN <<>> ELSE Head(ss) \o Concat(Tail(ss))
IndexPermutations(n) == {p \in [1 .. n -> 1 .. n] : \A i, j \in 1 .. n : p[i] = p[j] => i = j}

(***************************************************************************)
(* C1. Per-cohort uniqueness: at every point of a run, two different       *)
(* students of one cohort never hold the same faculty, whatever the        *)
(* preference maps (duplicate, missing, out-of-range ranks) and the rolls; *)
(* with unique rolls the same holds of the entries of the result mapping.  *)
(***************************************************************************)
PerCohortUniqueness ==
    GroupsFormed =>
        \A g \in DOMAIN groups : \A i, j \in DOMAIN groups[g] :
            LET a == groups[g][i]
                b == groups[g][j]
            IN i # j =>
                /\ Assigned(a) # None => Assigned(a) # Assigned(b)
                /\ ( /\ RollsUnique
                     /\ students[a].roll \in DOMAIN allocations
                     /\ students[b].roll \in DOMAIN allocations
                     /\ allocations[students[a].roll] # UNALLOCATED )
                   => allocations[students[a].roll] # allocations[students[b].roll]

\* a finished run in which one cohort gave two students two faculties and
\* another cohort gave the first of them again
PerCohortUniquenessWitness ==
    /\ pc = "done"
    /\ Len(groups) >= 2
    /\ Len(groups[1]) >= 2
    /\ Assigned(groups[1][1]) # None
    /\ Assigned(groups[1][2]) # None
    /\ Assigned(groups[2][1]) = Assigned(groups[1][1])

(***************************************************************************)
(* C2. Coverage: with unique rolls and at least one faculty the run is     *)
(* never aborted by an exception and never stuck before its return, and    *)
(* the returned mapping has exactly the students' rolls as keys, each      *)
(* value a member of the faculty list or the sentinel "UNALLOCATED".       *)
(***************************************************************************)
Coverage ==
    (RollsUnique /\ Len(faculty_list) >= 1) =>
        /\ pc \notin {"ZeroDivisionError", "KeyError"}
        /\ pc # "done" => ENABLED Next
        /\ pc = "done" =>
            /\ DOMAIN allocations = Rolls
            /\ \A r \in Rolls :
                allocations[r] \in Range(faculty_list) \cup {UNALLOCATED}

\* a finished run over several students with unique rolls whose mapping
\* holds a faculty for one and the sentinel for another
CoverageWitness ==
    /\ pc = "done"
    /\ RollsUnique
    /\ Len(students) >= 2
    /\ \E r \in Rolls : allocations[r] = UNALLOCATED
    /\ \E r \in Rolls : allocations[r] \in Range(faculty_list)

RollLE(a, b) == a = b \/ StrLess(a, b)

MeritOrder ==
    GroupsFormed =>
        /\ Len(sorted_students) = Len(students)
        /\ Range(sorted_students) = DOMAIN students
        /\ \A i \in 1 .. Len(sorted_students) - 1 :
            LET a == students[sorted_students[i]]
                b == students[sorted_students[i + 1]]
            IN \/ a.cgpa > b.cgpa
               \/ a.cgpa = b.cgpa /\ RollLE(a.roll, b.roll)
        /\ RollsUnique =>
            \A p \in IndexPermutations(Len(students)) :
                LET permuted == [i \in DOMAIN students |-> students[p[i]]]
                    resorted == sort_students_by_merit(permuted)
                IN \A i \in DOMAIN students :
                    permuted[resorted[i]].roll = students[sorted_students[i]].roll

\* a sort that moved a later, higher-merit student to the front and broke
\* a merit tie by roll against the input order
MeritOrderWitness ==
    /\ GroupsFormed
    /\ Len(sorted_students) >= 3
    /\ RollsUnique
    /\ \E i \in 1 .. Len(sorted_students) - 1 :
        /\ students[sorted_students[i]].cgpa > students[sorted_students[i + 1]].cgpa
        /\ sorted_students[i] > sorted_students[i + 1]
    /\ \E i \in 1 .. Len(sorted_students) - 1 :
        /\ students[sorted_students[i]].cgpa = students[sorted_students[i + 1]].cgpa
        /\ sorted_students[i] > sorted_students[i + 1]

(***************************************************************************)
(* C5. Cohort partition: the groups, concatenated in order, are the sorted *)
(* sequence; every group but the last has exactly F students, the last     *)
(* between 1 and F; their number is num_groups, the least k with           *)
(* k * F >= N, and 0 when N = 0.                                           *)
(***************************************************************************)
CohortPartition ==
    GroupsFormed =>
        LET N == Len(students)
            F == Len(faculty_list)
        IN /\ Concat(groups) = sorted_students
           /\ \A g \in DOMAIN groups :
                IF g < Len(groups) THEN Len(groups[g]) = F
                ELSE 1 <= Len(groups[g]) /\ Len(groups[g]) <= F
           /\ Len(groups) = num_groups
           /\ Len(groups) * F >= N
           /\ Len(groups) > 0 => (Len(groups) - 1) * F < N
           /\ N = 0 => Len(groups) = 0

\* groups formed with a full cohort followed by a smaller last one
CohortPartitionWitness ==
    /\ GroupsFormed
    /\ Len(groups) >= 2
    /\ Len(groups[1]) = Len(faculty_list)
    /\ Len(groups[Len(groups)]) < Len(faculty_list)

(***************************************************************************)
(* C7. Unallocated only on empty pool, as claimed: a turn ends with the    *)
(* sentinel if and only if its pool is empty, and with F >= 1 no student   *)
(* is ever unallocated.  The code contradicts it: a student whose map      *)
(* ranks none of the available faculties gets the sentinel although the    *)
(* pool is not empty.                                                      *)
(***************************************************************************)
UnallocatedOnlyOnEmptyPool ==
    /\ \A k \in DOMAIN turns :
        /\ turns[k].best_faculty = None <=> turns[k].pool = {}
        /\ turns[k].pool # {} =>
            /\ turns[k].best_faculty \in turns[k].pool
            /\ (k < Len(turns) /\ turns[k + 1].group = turns[k].group)
                    => turns[k].best_faculty \notin turns[k + 1].pool
    /\ Len(faculty_list) >= 1 =>
        \A r \in DOMAIN allocations : allocations[r] # UNALLOCATED

(***************************************************************************)
(* Vocabulary of the two-run properties: the second run has returned.      *)
(***************************************************************************)
SecondRunDone == run = 2 /\ pc = "done"
\* position of student index i in the merit order of the finished run
MeritPosition(i) == PositionIn(sorted_students, i)
\* cohort of student index i in the finished run
CohortOf(i) == CHOOSE g \in DOMAIN groups : i \in Range(groups[g])

(***************************************************************************)
(* C6. Merit precedence, as claimed: of two runs on inputs that differ     *)
(* only in the preference map of one student B, every student preceding B  *)
(* in B's cohort and every student of another cohort gets the same         *)
(* assignment in both, and B never gets the faculty a preceding student of *)
(* its cohort holds.  The code contradicts the first part when the two     *)
(* runs scan the pool in different orders (see C8).                        *)
(***************************************************************************)
MeritPrecedence ==
    (SecondRunDone /\ prev.changed # 0) =>
        LET B == prev.changed IN
        \A a \in DOMAIN students :
            /\ ( \/ CohortOf(a) # CohortOf(B)
                 \/ MeritPosition(a) < MeritPosition(B) )
               => allocations[students[a].roll] = prev.allocations[students[a].roll]
            /\ (CohortOf(a) = CohortOf(B) /\ MeritPosition(a) < MeritPosition(B)
                    /\ Assigned(a) # None)
               => Assigned(B) # Assigned(a)

(***************************************************************************)
(* C8. Determinism, as claimed: two runs on freshly loaded identical data  *)
(* return identical mappings for every input, ties included.  The code     *)
(* contradicts it: a tie on the best rank is broken by the iteration order *)
(* of a set of str, which differs between processes.                       *)
(***************************************************************************)
Determinism ==
    (SecondRunDone /\ prev.changed = 0) => allocations = prev.allocations

\* what the code does guarantee: runs that scan the pool in the same order
\* agree, and so do runs in which no turn met a tie on its best rank
NoTieAt(t) ==
    \A f \in t.pool :
        (f # t.best_faculty /\ t.best_faculty # None) =>
            PrefRank(students[t.student].preferences, f) # t.best_rank
DeterminismSameScan ==
    (SecondRunDone /\ prev.changed = 0 /\ scanOrder = prev.scanOrder)
        => allocations = prev.allocations
DeterminismNoTie ==
    (SecondRunDone /\ prev.changed = 0 /\ \A k \in DOMAIN turns : NoTieAt(turns[k]))
        => allocations = prev.allocations
MeritPrecedenceSameScan ==
    scanOrder = prev.scanOrder => MeritPrecedence

(***************************************************************************)
(* C9. Concrete scenario: the cohorts are {S1, S2, S3} and {S4, S5}; S1    *)
(* gets X, S2 gets Y and S3 gets Z whatever S4 and S5 prefer, and S4       *)
(* chooses from the full pool {X, Y, Z}.                                   *)
(***************************************************************************)
ScenarioIndex(k) == CHOOSE i \in DOMAIN students : students[i].roll = ScenarioRoll(k)
ScenarioTurnOf(k) == CHOOSE j \in DOMAIN turns : turns[j].student = ScenarioIndex(k)

ScenarioOutcome ==
    /\ GroupsFormed =>
        /\ Len(groups) = 2
        /\ groups[1] = <<ScenarioIndex(1), ScenarioIndex(2), ScenarioIndex(3)>>
        /\ groups[2] = <<ScenarioIndex(4), ScenarioIndex(5)>>
    /\ Len(turns) >= 4 => turns[ScenarioTurnOf(4)].pool = {"X", "Y", "Z"}
    /\ pc = "done" =>
        /\ allocations[ScenarioRoll(1)] = "X"
        /\ allocations[ScenarioRoll(2)] = "Y"
        /\ allocations[ScenarioRoll(3)] = "Z"
        /\ Assigned(ScenarioIndex(1)) = "X"
        /\ Assigned(ScenarioIndex(2)) = "Y"
        /\ Assigned(ScenarioIndex(3)) = "Z"

\* the scenario has run to its end from the reversed file, with S4 taking
\* the faculty that S1 holds
ScenarioOutcomeWitness ==
    /\ pc = "done"
    /\ Len(students) = 5
    /\ students[1].roll = ScenarioRoll(5)
    /\ allocations[ScenarioRoll(4)] = "X"

(***************************************************************************)
(* C10. Validation hard/soft split: validate_data always returns its       *)
(* record; valid is false exactly when there is no student, no faculty or  *)
(* a roll shared by two students; ranks outside 1..F, ranks repeated       *)
(* within one student and cgpa outside 0..10 each add a warning and leave  *)
(* valid as it is.                                                         *)
(***************************************************************************)
SoftDefects ==
    LET F == Len(faculty_list) IN
    Cardinality({<<i, f>> \in (DOMAIN students) \X Range(faculty_list) :
                    /\ f \in DOMAIN students[i].preferences
                    /\ students[i].preferences[f] \notin 1 .. F})
    + Cardinality({i \in DOMAIN students :
                    \E f, g \in DOMAIN students[i].preferences :
                        f # g /\ students[i].preferences[f] = students[i].preferences[g]})
    + Cardinality({i \in DOMAIN students : students[i].cgpa \notin 0 .. 10})

ValidationSplit ==
    /\ pc = "loaded" => ENABLED Validate
    /\ pc = "validated" =>
        /\ DOMAIN data_check = {"valid", "issues", "warnings", "num_students", "num_faculty"}
        /\ data_check.valid \in BOOLEAN
        /\ data_check.valid = FALSE <=>
            \/ Len(students) = 0
            \/ Len(faculty_list) = 0
            \/ ~RollsUnique
        /\ Len(data_check.warnings) = SoftDefects
        /\ data_check.valid <=> Len(data_check.issues) = 0

\* a valid report that carries all three kinds of warning
ValidationSplitWitness ==
    /\ pc = "validated"
    /\ data_check.valid
    /\ \E w \in Range(data_check.warnings) : w[1] = "invalid preference"
    /\ \E w \in Range(data_check.warnings) : w[1] = "duplicate preference ranks"
    /\ \E w \in Range(data_check.warnings) : w[1] = "unusual CGPA"

\* an invalid report for duplicate rolls alone, without any warning
ValidationSplitHardWitness ==
    /\ pc = "validated"
    /\ ~data_check.valid
    /\ data_check.issues = <<"Duplicate roll numbers found">>
    /\ data_check.warnings = <<>>

(***************************************************************************)
(* The derived views of the engine.  A table is a sequence of rows in the  *)
(* order of faculty_list; the 'Count Pref r' columns of a row are the      *)
(* function Count on 1 .. num_faculty.                                     *)
(***************************************************************************)
RECURSIVE SumTo(_, _)
SumTo(f, n) == IF n = 0 THEN 0 ELSE f[n] + SumTo(f, n - 1)
SumOver(f) == SumTo(f, Len(f))
\* sum of the counts of a dict whose keys are faculty names
RECURSIVE SumCounts(_, _)
SumCounts(dict, keys) ==
    IF keys = {} THEN 0
    ELSE LET k == CHOOSE x \in keys : TRUE
         IN dict[k] + SumCounts(dict, keys \ {k})
MinOf(S) == CHOOSE x \in S : \A y \in S : x <= y
MaxOf(S) == CHOOSE x \in S : \A y \in S : x >= y

\* student.allocated_faculty or 'UNALLOCATED', kept as it is
get_allocation_summary_raw(sts) ==
    [i \in DOMAIN sts |-> [Roll |-> sts[i].roll, CGPA |-> sts[i].cgpa,
                           Allocated |-> sts[i].allocated_faculty]]
get_allocation_summary(sts) ==
    [i \in DOMAIN sts |-> [Roll |-> sts[i].roll, CGPA |-> sts[i].cgpa,
                           Allocated |-> IF sts[i].allocated_faculty # None
                                         THEN sts[i].allocated_faculty
                                         ELSE UNALLOCATED]]

\* student.preferences.get(faculty, 0)
StatRank(preferences, faculty) ==
    IF faculty \in DOMAIN preferences THEN preferences[faculty] ELSE 0

get_faculty_statistics(sts, fl, nf) ==
    [k \in DOMAIN fl |->
        [Fac |-> fl[k],
         Count |-> [r \in 1 .. nf |->
            Cardinality({i \in DOMAIN sts : StatRank(sts[i].preferences, fl[k]) = r})]]]

get_allocation_preference_statistics(sts, fl, nf) ==
    [k \in DOMAIN fl |->
        [Fac |-> fl[k],
         Count |-> [r \in 1 .. nf |->
            Cardinality({i \in DOMAIN sts :
                            /\ sts[i].allocated_faculty # None
                            /\ sts[i].allocated_faculty = fl[k]
                            /\ StatRank(sts[i].preferences, fl[k]) = r})]]]

\* round(x, 2) of the quotient sum / count, in hundredths; 0 for no rank
Hundredths(sum, count) ==
    IF count = 0 THEN 0 ELSE (200 * sum + count) \div (2 * count)

get_allocation_metrics(sts, ns, nf, ng) ==
    LET allocated == {i \in DOMAIN sts : sts[i].allocated_faculty # None}
        ranked == {i \in allocated :
                     StatRank(sts[i].preferences, sts[i].allocated_faculty) > 0}
        ranks == [i \in DOMAIN sts |->
                     IF i \in ranked
                     THEN StatRank(sts[i].preferences, sts[i].allocated_faculty)
                     ELSE 0]
        faculty_counts ==
            [f \in {sts[i].allocated_faculty : i \in allocated} |->
                Cardinality({i \in allocated : sts[i].allocated_faculty = f})]
    IN [total_students |-> ns,
        total_faculty |-> nf,
        num_groups |-> ng,
        allocated_students |-> Cardinality(allocated),
        average_preference_rank |-> Hundredths(SumOver(ranks), Cardinality(ranked)),
        faculty_distribution |-> faculty_counts,
        min_students_per_faculty |->
            IF DOMAIN faculty_counts = {} THEN 0 ELSE MinOf(Range(faculty_counts)),
        max_students_per_faculty |->
            IF DOMAIN faculty_counts = {} THEN 0 ELSE MaxOf(Range(faculty_counts))]

\* sum over all (faculty, rank) cells of a statistics table
TableTotal(table) == SumOver([k \in DOMAIN table |-> SumOver(table[k].Count)])

(***************************************************************************)
(* The app.  One process serves the page; each upload or press reruns the  *)
(* script, which loads the uploaded file anew and validates it.  The       *)
(* session state outlives the reruns.  A file has a rank in every cell     *)
(* (load_student_data reads int(row[faculty]) for every faculty); its      *)
(* rolls may repeat and its first score may be out of the usual range.     *)
(***************************************************************************)
AppFaculty == {<<>>, <<"X">>, <<"X", "Y">>}
AppFiles ==
    UNION {{[students |-> sts, faculty_list |-> fl] :
                sts \in StudentLists(RollChoices(n), CgpaLists(n, 8, {11}, {1}),
                                     {ListOrderPrefs(fl)}, n)} :
           fl \in AppFaculty, n \in 0 .. MaxStudents}

\* the locals of a script run before the engine exists
EngineIdle ==
    /\ num_students = 0
    /\ num_faculty = 0
    /\ num_groups = 0
    /\ sorted_students = <<>>
    /\ groups = <<>>
    /\ allocations = EmptyDict
    /\ group_idx = 0
    /\ student_idx = 0
    /\ available_faculty = {}
    /\ turns = <<>>

\* a rerun of the script starts with these locals again
EngineReset ==
    /\ num_students' = 0
    /\ num_faculty' = 0
    /\ num_groups' = 0
    /\ sorted_students' = <<>>
    /\ groups' = <<>>
    /\ allocations' = EmptyDict
    /\ group_idx' = 0
    /\ student_idx' = 0
    /\ available_faculty' = {}
    /\ turns' = <<>>

\* the page before any file is chosen
NoFile ==
    /\ students = <<>>
    /\ faculty_list = <<>>
    /\ scanOrder = <<>>
    /\ pc = "no_file"
    /\ EngineIdle
    /\ run = 1
    /\ prev = NoPrev
    /\ data_check = NoCheck
    /\ entry = "app"
    /\ session = NoSession
    /\ uploads = 0
    /\ outputs = NoOutputs

InitApp ==
    \/ NoFile
    \/ \E file \in AppFiles : \E so \in ScanOrders(file.faculty_list) :
            Loaded(file.students, file.faculty_list, so)

\* if data_check['valid']: pressed where the check is not looked at
MayStartAnyway(check) == TRUE
\* if data_check['valid']:
MayStart(check) == check.valid

(***************************************************************************)
(* A file is chosen in the uploader: the script reruns, loads and          *)
(* validates it.  The button is not pressed in this rerun.                 *)
(***************************************************************************)
Upload ==
    /\ entry = "app"
    /\ pc \in {"no_file", "validated"}
    /\ uploads < MaxUploads
    /\ \E file \in AppFiles : \E so \in ScanOrders(file.faculty_list) :
        /\ file.faculty_list = faculty_list => so = scanOrder \/ pc = "no_file"
        /\ students' = file.students
        /\ faculty_list' = file.faculty_list
        /\ scanOrder' = so
        /\ data_check' = validate_data(file.students, file.faculty_list)
    /\ pc' = "validated"
    /\ EngineReset
    /\ uploads' = uploads + 1
    /\ session' = [session EXCEPT !.message = None]
    /\ UNCHANGED <<run, prev, entry, outputs>>

(***************************************************************************)
(* Start Allocation is pressed: the script reruns, loads and validates the *)
(* same file, and either refuses or goes on to build the engine.           *)
(***************************************************************************)
PressStart ==
    /\ entry = "app"
    /\ pc = "validated"
    /\ students' = [i \in DOMAIN students |->
                        Student(students[i].roll, students[i].cgpa,
                                students[i].preferences)]
    /\ data_check' = validate_data(students', faculty_list)
    /\ EngineReset
    /\ IF MayStart(data_check')
       THEN /\ pc' = "loaded"
            /\ session' = [session EXCEPT !.message = None]
       ELSE /\ pc' = "validated"
            /\ session' = [session EXCEPT
                    !.message = "Please correct the data issues before running."]
    /\ UNCHANGED <<faculty_list, scanOrder, run, prev, entry, uploads, outputs>>

(***************************************************************************)
(* The rest of the press, once allocate() has returned: the two tables are *)
(* derived and everything is stored in the session state.                  *)
(***************************************************************************)
StoreResults ==
    /\ entry = "app"
    /\ pc = "done"
    /\ session' = [has_run |-> TRUE,
                   allocator |-> Holding([students |-> students,
                                          faculty_list |-> faculty_list,
                                          num_students |-> num_students,
                                          num_faculty |-> num_faculty,
                                          num_groups |-> num_groups]),
                   results_df |-> Holding(get_allocation_summary(students)),
                   stats_df |-> Holding(get_faculty_statistics(students,
                                            faculty_list, num_faculty)),
                   message |-> "Assignment complete!"]
    /\ pc' = "validated"
    /\ UNCHANGED <<students, faculty_list, scanOrder, num_students, num_faculty,
                   num_groups, sorted_students, groups, allocations, group_idx,
                   student_idx, available_faculty, turns, run, prev, data_check,
                   entry, uploads, outputs>>

NextApp == Next \/ Upload \/ PressStart \/ StoreResults

SpecApp == InitApp /\ [][NextApp]_vars

(***************************************************************************)
(* C11. Zero faculty is rejected before grouping: while the loaded data    *)
(* has no faculty and at least one student, no cohort exists and no        *)
(* allocation result exists.  Through load_and_allocate the program leaves *)
(* "loaded" only into the ZeroDivisionError of the constructor; in the app *)
(* the data is reported invalid, the engine is never reached, and whatever *)
(* the session state holds was stored for data that had a faculty.         *)
(***************************************************************************)
ZeroFacultyInput == Len(faculty_list) = 0 /\ Len(students) >= 1

ZeroFacultyRejected ==
    /\ ZeroFacultyInput =>
        /\ groups = <<>>
        /\ sorted_students = <<>>
        /\ allocations = EmptyDict
        /\ turns = <<>>
        /\ num_groups = 0
        /\ pc \notin {"constructed", "for_group", "for_student", "done"}
        /\ entry = "load_and_allocate" =>
            /\ pc \in {"loaded", "ZeroDivisionError"}
            /\ pc = "loaded" => ENABLED Construct
        /\ entry = "app" =>
            /\ pc = "validated"
            /\ ~data_check.valid
            /\ "No faculty found in input file" \in Range(data_check.issues)
            /\ session.message # "Assignment complete!"
    /\ session.has_run =>
        /\ Len(session.allocator[1].faculty_list) >= 1
        /\ Len(session.results_df[1]) = Len(session.allocator[1].students)

\* the constructor has raised on a roster without faculty
ZeroFacultyRejectedWitness ==
    /\ ZeroFacultyInput
    /\ entry = "load_and_allocate"
    /\ pc = "ZeroDivisionError"

\* the app has refused a press on such a roster, after an earlier run
ZeroFacultyRefusedWitness ==
    /\ ZeroFacultyInput
    /\ entry = "app"
    /\ session.has_run
    /\ session.message = "Please correct the data issues before running."

(***************************************************************************)
(* C12. Histogram totals, as claimed: once the engine exists, for data     *)
(* that validate_data accepts (warnings or not), the cells of the table of *)
(* get_faculty_statistics add up to (number of students) x (number of      *)
(* faculties), before, during and after allocate().                        *)
(***************************************************************************)
EngineBuilt == pc \in {"constructed", "for_group", "for_student", "done"}

HistogramTotals ==
    EngineBuilt /\ validate_data(students, faculty_list).valid =>
        TableTotal(get_faculty_statistics(students, faculty_list, num_faculty))
            = Len(students) * Len(faculty_list)

\* every cell of the file holds a rank in 1 .. F
RanksInRange ==
    \A i \in DOMAIN students : \A f \in Range(faculty_list) :
        /\ f \in DOMAIN students[i].preferences
        /\ students[i].preferences[f] \in 1 .. Len(faculty_list)

\* what the code does: the table counts exactly the cells with a rank in 1 .. F
HistogramCountsInRangeCells ==
    EngineBuilt =>
        TableTotal(get_faculty_statistics(students, faculty_list, num_faculty))
            = Cardinality({<<i, f>> \in (DOMAIN students) \X Range(faculty_list) :
                            StatRank(students[i].preferences, f)
                                \in 1 .. Len(faculty_list)})

(***************************************************************************)
(* C13. Out-of-range ranks count as worst, as claimed: in every turn, a    *)
(* faculty whose stated rank lies outside 1 .. F is the one chosen only if *)
(* no faculty of the pool has a rank inside 1 .. F.                        *)
(***************************************************************************)
InRange(preferences, faculty) ==
    /\ faculty \in DOMAIN preferences
    /\ preferences[faculty] \in 1 .. Len(faculty_list)

OutOfRangeCountsAsWorst ==
    \A k \in DOMAIN turns :
        LET preferences == students[turns[k].student].preferences
            chosen == turns[k].best_faculty
        IN (chosen # None /\ ~InRange(preferences, chosen)) =>
                \A g \in turns[k].pool : ~InRange(preferences, g)

\* what the code does: a rank above F loses to every rank inside 1 .. F,
\* a rank below 1 wins over them
OutOfRangeByValue ==
    \A k \in DOMAIN turns :
        LET preferences == students[turns[k].student].preferences
            chosen == turns[k].best_faculty
        IN (chosen # None /\ ~InRange(preferences, chosen)
            /\ \E g \in turns[k].pool : InRange(preferences, g))
                => preferences[chosen] < 1

(***************************************************************************)
(* C14. Write-once assignment, as claimed: no turn finds the student's     *)
(* allocated_faculty already set; every turn adds one entry to the result  *)
(* mapping and the entries of the earlier turns are still what was put     *)
(* then; and when allocate() returns, every student's field has been       *)
(* written in exactly one turn.                                            *)
(***************************************************************************)
WritesOf(i) ==
    {k \in DOMAIN turns : turns[k].student = i /\ turns[k].best_faculty # None}
PutAt(k) ==
    IF turns[k].best_faculty # None THEN turns[k].best_faculty ELSE UNALLOCATED

MappingOnlyGrows ==
    /\ Cardinality(DOMAIN allocations) = Len(turns)
    /\ \A k \in DOMAIN turns :
        /\ students[turns[k].student].roll \in DOMAIN allocations
        /\ allocations[students[turns[k].student].roll] = PutAt(k)

WriteOnce ==
    GroupsFormed =>
        /\ \A k \in DOMAIN turns : turns[k].before = None
        /\ MappingOnlyGrows
        /\ pc = "done" => \A i \in DOMAIN students : Cardinality(WritesOf(i)) = 1

\* what the code does: at most one write per student, none for a student
\* whose turn found no faculty with a stated rank
WriteAtMostOnce ==
    GroupsFormed =>
        /\ \A k \in DOMAIN turns : turns[k].before = None
        /\ RollsUnique => MappingOnlyGrows
        /\ pc = "done" => \A i \in DOMAIN students :
            /\ Cardinality(WritesOf(i)) <= 1
            /\ Cardinality(WritesOf(i)) = 0 <=> Assigned(i) = None

(***************************************************************************)
(* C15. Hard failures block allocation in the app: over every sequence of  *)
(* uploads and presses, the script is inside the engine (about to build    *)
(* it, building it, allocating, returned or failed) only while the report  *)
(* of validate_data for the loaded data says valid; a step taken while the *)
(* report says invalid, a press included, leaves has_run, allocator,       *)
(* results_df and stats_df as they were; and has_run turns true, and the   *)
(* stored results change, only in the step that follows a returned         *)
(* allocate().                                                             *)
(***************************************************************************)
InEngine ==
    pc \in {"loaded", "constructed", "for_group", "for_student", "done",
            "ZeroDivisionError", "KeyError"}
Stored(sess) == <<sess.has_run, sess.allocator, sess.results_df, sess.stats_df>>

HardFailuresBlockState ==
    entry = "app" =>
        /\ InEngine =>
            /\ data_check.valid
            /\ data_check = validate_data(students, faculty_list)
        /\ pc = "validated" => data_check = validate_data(students, faculty_list)
        /\ IF session.has_run
           THEN /\ session.allocator # Unset
                /\ LET allocator == session.allocator[1]
                   IN /\ validate_data(allocator.students,
                                       allocator.faculty_list).valid
                      /\ \A i \in DOMAIN allocator.students :
                            allocator.students[i].allocated_faculty # None
                      /\ session.results_df
                            = Holding(get_allocation_summary(allocator.students))
                      /\ session.stats_df
                            = Holding(get_faculty_statistics(allocator.students,
                                allocator.faculty_list, allocator.num_faculty))
           ELSE Stored(session) = Stored(NoSession)

HardFailuresBlockStep ==
    entry = "app" =>
        /\ ~data_check.valid => Stored(session') = Stored(session)
        /\ Stored(session') # Stored(session) =>
            /\ pc = "done"
            /\ session'.has_run
            /\ session'.allocator[1].students = students
        /\ (~session.has_run /\ session'.has_run) => pc = "done"

HardFailuresBlock ==
    /\ []HardFailuresBlockState
    /\ [][HardFailuresBlockStep]_vars

\* a press on a file with duplicate rolls has been refused, with the results
\* of an earlier file still stored
HardFailuresBlockWitness ==
    /\ entry = "app"
    /\ pc = "validated"
    /\ "Duplicate roll numbers found" \in Range(data_check.issues)
    /\ session.message = "Please correct the data issues before running."
    /\ session.has_run
    /\ session.allocator[1].students # students

(***************************************************************************)
(* Calls of the four get_* methods on the engine once allocate() has       *)
(* returned, in any order and any number of times.  outputs keeps what the *)
(* latest call of each method returned.  None of the methods assigns to a  *)
(* student, to the faculty list or to a field of the engine.               *)
(***************************************************************************)
\* student.allocated_faculty = student.allocated_faculty or 'UNALLOCATED'
AfterReadWritingBack(sts) ==
    [i \in DOMAIN sts |->
        [sts[i] EXCEPT !.allocated_faculty = IF @ = None THEN UNALLOCATED ELSE @]]
\* the students after a get_* method has read them
AfterRead(sts) == sts

Returned(method) ==
    CASE method = "get_allocation_summary" ->
            get_allocation_summary(students)
      [] method = "get_faculty_statistics" ->
            get_faculty_statistics(students, faculty_list, num_faculty)
      [] method = "get_allocation_preference_statistics" ->
            get_allocation_preference_statistics(students, faculty_list, num_faculty)
      [] method = "get_allocation_metrics" ->
            get_allocation_metrics(students, num_students, num_faculty, num_groups)

\* what a get_* method leaves alone besides the students
readframe == <<faculty_list, scanOrder, pc, num_students, num_faculty,
               num_groups, sorted_students, groups, allocations, group_idx,
               student_idx, available_faculty, turns, run, prev, data_check,
               entry, session, uploads>>
\* the engine of load_and_allocate after allocate() has returned
CanRead == pc = "done" /\ entry = "load_and_allocate"

GetAllocationSummary ==
    /\ CanRead
    /\ outputs' = [outputs EXCEPT !.get_allocation_summary =
                        Holding(Returned("get_allocation_summary"))]
    /\ students' = AfterRead(students)
    /\ UNCHANGED readframe

GetFacultyStatistics ==
    /\ CanRead
    /\ outputs' = [outputs EXCEPT !.get_faculty_statistics =
                        Holding(Returned("get_faculty_statistics"))]
    /\ students' = AfterRead(students)
    /\ UNCHANGED readframe

GetAllocationPreferenceStatistics ==
    /\ CanRead
    /\ outputs' = [outputs EXCEPT !.get_allocation_preference_statistics =
                        Holding(Returned("get_allocation_preference_statistics"))]
    /\ students' = AfterRead(students)
    /\ UNCHANGED readframe

GetAllocationMetrics ==
    /\ CanRead
    /\ outputs' = [outputs EXCEPT !.get_allocation_metrics =
                        Holding(Returned("get_allocation_metrics"))]
    /\ students' = AfterRead(students)
    /\ UNCHANGED readframe

InitRead ==
    \E fl \in TwoRunFaculty : \E n \in {m \in 1 .. MaxStudents : Fits(m, fl)} :
        \E sts \in StudentLists({UniqueRolls(n)}, {[i \in 1 .. n |-> 8]},
                                PrefMaps(fl, 1 .. MaxRank), n) :
            \E so \in ScanOrders(fl) : Loaded(sts, fl, so)

NextRead ==
    \/ Next
    \/ GetAllocationSummary
    \/ GetFacultyStatistics
    \/ GetAllocationPreferenceStatistics
    \/ GetAllocationMetrics

SpecRead == InitRead /\ [][NextRead]_vars

(***************************************************************************)
(* C16. Read-only, repeatable derivation: a step taken after allocate()    *)
(* has returned, that is a call of one of the four get_* methods, leaves   *)
(* the students (every field, the preference maps included), the faculty   *)
(* list, the result mapping and the fields of the engine unchanged, and    *)
(* after it each method returns what its earlier calls returned.           *)
(***************************************************************************)
Methods == DOMAIN NoOutputs

ReadStep ==
    (pc = "done" /\ pc' = "done") =>
        /\ students' = students
        /\ faculty_list' = faculty_list
        /\ allocations' = allocations
        /\ <<num_students, num_faculty, num_groups>>'
            = <<num_students, num_faculty, num_groups>>
        /\ \A method \in Methods :
            /\ outputs[method] # Unset => outputs'[method] = outputs[method]
            /\ outputs'[method] # Unset => outputs'[method] = Holding(Returned(method)')

ReadOnlyDerivation == [][ReadStep]_vars

\* all four methods have been called on a result with an allocated and an
\* unallocated student
ReadOnlyDerivationWitness ==
    /\ pc = "done"
    /\ \A method \in Methods : outputs[method] # Unset
    /\ \E i, j \in DOMAIN students : Assigned(i) # None /\ Assigned(j) = None
    /\ outputs.get_allocation_metrics[1].allocated_students < Len(students)

(***************************************************************************)
(* C17. Balanced load: when allocate() has returned on a roster in which   *)
(* every student states a rank for every faculty (F >= 1), every faculty   *)
(* has exactly one student in each cohort of F students and at most one in *)
(* a shorter last cohort; so every faculty's load lies between floor(N/F)  *)
(* and ceil(N/F) and does not exceed the number of cohorts, the            *)
(* faculty_distribution of the metrics holds these loads, and whenever all *)
(* F faculties appear in it, max_students_per_faculty and                  *)
(* min_students_per_faculty differ by at most 1.                           *)
(***************************************************************************)
EveryRankStated ==
    \A i \in DOMAIN students : Range(faculty_list) \subseteq DOMAIN students[i].preferences
Load(f) == Cardinality({i \in DOMAIN students : Assigned(i) = f})
LoadIn(g, f) == Cardinality({i \in Range(groups[g]) : Assigned(i) = f})
Metrics == get_allocation_metrics(students, num_students, num_faculty, num_groups)

BalancedLoad ==
    (pc = "done" /\ EveryRankStated) =>
        LET N == Len(students)
            F == Len(faculty_list)
        IN /\ F >= 1
           /\ \A g \in DOMAIN groups : \A f \in Range(faculty_list) :
                IF Len(groups[g]) = F THEN LoadIn(g, f) = 1 ELSE LoadIn(g, f) <= 1
           /\ \A g \in DOMAIN groups : Len(groups[g]) < F => g = Len(groups)
           /\ \A f \in Range(faculty_list) :
                /\ N \div F <= Load(f)
                /\ Load(f) <= Ceil(N, F)
                /\ Load(f) <= num_groups
                /\ Load(f) > 0 <=> f \in DOMAIN Metrics.faculty_distribution
                /\ Load(f) > 0 => Metrics.faculty_distribution[f] = Load(f)
           /\ DOMAIN Metrics.faculty_distribution = Range(faculty_list) =>
                Metrics.max_students_per_faculty
                    - Metrics.min_students_per_faculty <= 1

\* a shorter last cohort: all faculties carry a load, not all the same
BalancedLoadWitness ==
    /\ pc = "done"
    /\ EveryRankStated
    /\ Len(groups) >= 2
    /\ Len(groups[Len(groups)]) < Len(faculty_list)
    /\ DOMAIN Metrics.faculty_distribution = Range(faculty_list)
    /\ Metrics.max_students_per_faculty = Metrics.min_students_per_faculty + 1

====
